---- MODULE Spec2Model ----
(***************************************************************************)
(* A model of helpers.py: generic DataFrame helpers, species naming         *)
(* helpers and mechanism assembly helpers.                                  *)
(*                                                                          *)
(* Every helper is a function of its arguments; a behaviour of the model    *)
(* is one call by a caller (or, for the mechanism helpers, the chain        *)
(* mechanism_dict -> species_for_mechanism -> mechanism_string).  The       *)
(* initial state holds the caller's arguments, each action runs one helper  *)
(* to completion and records what it returned or raised.  The caller's      *)
(* reaction and species tables are state of their own, because helpers      *)
(* assign to columns of the DataFrame object they are handed.               *)
(***************************************************************************)
EXTENDS Integers, Sequences, FiniteSets, TLC

VARIABLES fn, args, pc, ret, rxn_df, spc_df, rxn_dct, mech_spc_df, spc_dct

vars == <<fn, args, pc, ret, rxn_df, spc_df, rxn_dct, mech_spc_df, spc_dct>>

\* ------------------------------------------------------------------ bounds
\* longest species name (in characters) handed to the naming helpers
MaxNameLen == 3
\* most rows of the table handed to lookup_rows / lookup_row
MaxLookupRows == 3
\* most rows of df and of other_df handed to with_columns_from_other
MaxDfRows == 2
MaxOtherRows == 2
\* most rows of the reaction table and of the species table
MaxRxnRows == 2
MaxSpcRows == 3

\* --------------------------------------------------------- generic helpers
\* all sequences over S of length 0..n
RECURSIVE SeqsUpTo(_, _)
SeqsUpTo(S, n) ==
    IF n = 0 THEN {<<>>}
    ELSE LET shorter == SeqsUpTo(S, n - 1)
         IN  shorter \cup {Append(s, x) : s \in {t \in shorter : Len(t) = n - 1}, x \in S}

\* the elements of a sequence
Range(s) == {s[i] : i \in 1..Len(s)}

\* s[i..] restricted to the positions at which keep holds (boolean indexing)
RECURSIVE MaskFrom(_, _, _)
MaskFrom(s, keep, i) ==
    IF i > Len(s) THEN <<>>
    ELSE (IF keep[i] THEN <<s[i]>> ELSE <<>>) \o MaskFrom(s, keep, i + 1)

Mask(s, keep) == MaskFrom(s, keep, 1)

\* what a helper hands back: a value, or the exception it raised
Returned(v) == [status |-> "ok", val |-> v]
Raised(exc, msg) == [status |-> exc, val |-> msg]
None == [status |-> "none", val |-> <<>>]

\* ---------------------------------------------------------- species naming
\* characters of a CHEMKIN species name
NameChars == {"X", "0", "1", "\n"}
Names == SeqsUpTo(NameChars, MaxNameLen)

\* identifiers (InChI / AMChI strings) and automol.amchi.is_enantiomer
Chis == {"achiral_chi", "chiral_chi"}
is_enantiomer(chi) == chi = "chiral_chi"

\* str.endswith for a one-character suffix
endswith(name, c) == Len(name) > 0 /\ name[Len(name)] = c

\* Python's `$` (no MULTILINE): at the end of the string, and just before a
\* newline that is the last character.  i is the number of characters
\* before the position.
DollarAt(s, i) ==
    \/ i = Len(s)
    \/ i = Len(s) - 1 /\ s[Len(s)] = "\n"

\* re.sub(<one character of class>$, repl, s): every match is one character
\* followed by `$`; all matches are replaced
re_sub_end(class, repl, s) ==
    [i \in 1..Len(s) |-> IF s[i] \in class /\ DollarAt(s, i) THEN repl ELSE s[i]]

\* a regular expression that lost its `$`: every character of the class is replaced
re_sub_any(class, repl, s) ==
    [i \in 1..Len(s) |-> IF s[i] \in class THEN repl ELSE s[i]]

racemic_species_name_unanchored(name, chi) ==
    IF ~is_enantiomer(chi) THEN Returned(name)
    ELSE IF ~(endswith(name, "0") \/ endswith(name, "1"))
         THEN Raised("AssertionError", <<>>)
         ELSE Returned(re_sub_any({"0", "1"}, "r", name))

racemic_species_name(name, chi) ==
    IF ~is_enantiomer(chi) THEN Returned(name)
    ELSE IF ~(endswith(name, "0") \/ endswith(name, "1"))
         THEN Raised("AssertionError", <<>>)
         ELSE Returned(re_sub_end({"0", "1"}, "r", name))

\* a reflection that maps both markers to "0"
reflect_species_name_one_way(name, chi) ==
    IF ~is_enantiomer(chi) THEN Returned(name)
    ELSE IF ~(endswith(name, "0") \/ endswith(name, "1"))
         THEN Raised("AssertionError", <<>>)
         ELSE Returned(re_sub_end({"0", "1"}, "0", name))

reflect_species_name(name, chi) ==
    IF ~is_enantiomer(chi) THEN Returned(name)
    ELSE IF ~(endswith(name, "0") \/ endswith(name, "1"))
         THEN Raised("AssertionError", <<>>)
         ELSE IF endswith(name, "1")
              THEN Returned(re_sub_end({"1"}, "0", name))
              ELSE Returned(re_sub_end({"0"}, "1", name))

\* ------------------------------------------------------------ table lookup
\* a lookup table has the columns LookupCols; a row maps each column to a value
LookupCols == {"a", "b"}
Vals == {"u", "v"}
LookupRow == [LookupCols -> Vals]
LookupTables == SeqsUpTo(LookupRow, MaxLookupRows)

\* col_val_dct: a dict, in insertion order, as a sequence of (column, value)
\* items with distinct columns
ColValDcts ==
    {d \in SeqsUpTo([col : LookupCols, val : Vals], Cardinality(LookupCols)) :
        \A i, j \in 1..Len(d) : d[i].col = d[j].col => i = j}

\* df[k] == v: one boolean per row
ColEq(df, k, v) == [i \in 1..Len(df) |-> df[i][k] = v]

\* x & y on boolean Series
SeriesAnd(x, y) == [i \in DOMAIN x |-> x[i] /\ y[i]]

\* the fold of functools.reduce(f, sels) over sels[1..n], n >= 1
RECURSIVE reduce_and(_, _)
reduce_and(sels, n) ==
    IF n = 1 THEN sels[1] ELSE SeriesAnd(reduce_and(sels, n - 1), sels[n])

lookup_rows(df, col_val_dct) ==
    LET sels == [j \in 1..Len(col_val_dct) |->
                    ColEq(df, col_val_dct[j].col, col_val_dct[j].val)]
    IN  IF Len(col_val_dct) = 0
        THEN Raised("TypeError", <<>>)  \* reduce() of empty sequence with no initial value
        ELSE Returned(Mask(df, reduce_and(sels, Len(col_val_dct))))

lookup_row(df, col_val_dct) ==
    LET sel_df == lookup_rows(df, col_val_dct)
    IN  IF sel_df.status # "ok" THEN sel_df
        ELSE IF Len(sel_df.val) = 0 THEN Raised("IndexError", <<>>)
        ELSE Returned(sel_df.val[1])

\* ------------------------------------------------- with_columns_from_other
\* A DataFrame is [cols, rows]: the column labels in order, and the rows, each
\* a sequence of cell values aligned with cols.  A column label is a string,
\* kept as its sequence of characters so that suffixes and regular
\* expressions act on it.
ColK == <<"k">>
ColA == <<"a">>
ColB == <<"b">>
SuffixY == <<"_", "y">>
NaN == "nan"

DfColumnLists == {<<ColK, ColA>>, <<ColK, ColA \o SuffixY>>, <<ColK, ColA, ColA \o SuffixY>>}
OtherColumnLists == {<<ColK, ColA>>, <<ColK, ColB>>, <<ColK, ColB \o SuffixY>>}

\* all DataFrames with the given columns and at most n rows
Frames(cols, n) ==
    {[cols |-> cols, rows |-> r] : r \in SeqsUpTo([1..Len(cols) -> Vals], n)}

\* the lists of merge keys: non-empty, each column present in both frames
MergeOns(df, other_df) ==
    {m \in {<<ColK>>, <<ColA>>, <<ColK, ColA>>} :
        Range(m) \subseteq Range(df.cols) \cap Range(other_df.cols)}

\* the position of the first column labelled c
ColPos(cols, c) == CHOOSE i \in 1..Len(cols) : cols[i] = c /\ \A j \in 1..(i - 1) : cols[j] # c

\* the cells of a row under the columns `on`, in the order of `on`
KeyOf(cols, row, on) == [j \in 1..Len(on) |-> row[ColPos(cols, on[j])]]

\* DataFrame.drop_duplicates kept as it is: every row stays
drop_duplicates_keep_all(frame, subset) == frame

\* DataFrame.drop_duplicates(subset=...): the first row of each key stays
drop_duplicates(frame, subset) ==
    LET first(i) == \A j \in 1..(i - 1) :
                        KeyOf(frame.cols, frame.rows[j], subset) #
                        KeyOf(frame.cols, frame.rows[i], subset)
    IN  [frame EXCEPT !.rows = Mask(frame.rows, [i \in 1..Len(frame.rows) |-> first(i)])]

\* the columns of `right` that are not merge keys, as positions in right.cols
RightPayload(right, on) ==
    Mask([i \in 1..Len(right.cols) |-> i],
         [i \in 1..Len(right.cols) |-> right.cols[i] \notin Range(on)])

\* the labels pandas gives the right frame's payload columns: a label that
\* also labels a non-key column of the left frame gets the right suffix
RightLabels(left, right, on, rsuffix) ==
    LET pay == RightPayload(right, on)
        to_rename == (Range(left.cols) \ Range(on)) \cap (Range(right.cols) \ Range(on))
    IN  [j \in 1..Len(pay) |->
            IF right.cols[pay[j]] \in to_rename
            THEN right.cols[pay[j]] \o rsuffix ELSE right.cols[pay[j]]]

\* a suffixed label that equals a label already in the result: pandas 2
\* raises MergeError, pandas 1 warns and returns both columns
SuffixCollision(left, right, on, rsuffix) ==
    LET labels == RightLabels(left, right, on, rsuffix)
    IN  \/ \E i, j \in 1..Len(labels) : i # j /\ labels[i] = labels[j]
        \/ Range(labels) \cap Range(left.cols) # {}

\* the rows of a left join: each left row, in order, with each matching right
\* row in order, or with NaN cells when no right row matches
RECURSIVE LeftJoinRows(_, _, _, _)
LeftJoinRows(left, right, on, i) ==
    IF i > Len(left.rows) THEN <<>>
    ELSE LET pay == RightPayload(right, on)
             key == KeyOf(left.cols, left.rows[i], on)
             hits == Mask(right.rows,
                          [j \in 1..Len(right.rows) |->
                              KeyOf(right.cols, right.rows[j], on) = key])
             joined == IF Len(hits) = 0
                       THEN <<left.rows[i] \o [j \in 1..Len(pay) |-> NaN]>>
                       ELSE [h \in 1..Len(hits) |->
                               left.rows[i] \o [j \in 1..Len(pay) |-> hits[h][pay[j]]]]
         IN  joined \o LeftJoinRows(left, right, on, i + 1)

\* pandas.merge(left, right, how="left", on=on, suffixes=(None, rsuffix))
merge_left(left, right, on, rsuffix) ==
    [cols |-> left.cols \o RightLabels(left, right, on, rsuffix),
     rows |-> LeftJoinRows(left, right, on, 1)]

\* re.search("_y$", label)
MatchesSuffixY(label) ==
    \E i \in 1..(Len(label) - 1) :
        label[i] = "_" /\ label[i + 1] = "y" /\ DollarAt(label, i + 1)

\* df.drop(df.filter(regex="_y$").columns, axis=1)
drop_y_columns(frame) ==
    LET keep == [i \in 1..Len(frame.cols) |-> ~MatchesSuffixY(frame.cols[i])]
    IN  [cols |-> Mask(frame.cols, keep),
         rows |-> [r \in 1..Len(frame.rows) |-> Mask(frame.rows[r], keep)]]

\* strict: the installed pandas raises on a suffix collision
with_columns_from_other(df, other_df, merge_on, strict) ==
    LET other == drop_duplicates(other_df, merge_on)
    IN  IF strict /\ SuffixCollision(df, other, merge_on, SuffixY)
        THEN Raised("MergeError", <<>>)
        ELSE Returned(drop_y_columns(merge_left(df, other, merge_on, SuffixY)))

\* ------------------------------------------------------ mechanism assembly
\* species names appearing in reaction names and species tables
SpcNames == {<<"A">>, <<"B">>, <<"C">>}

\* CHEMKIN reaction names
RxnNames == {<<"A", "+", "B", "=", "C">>, <<"A", "+", "M", "=", "B", "+", "M">>}

\* the pieces of s between occurrences of the character sep
RECURSIVE Split(_, _)
Split(s, sep) ==
    IF \A i \in 1..Len(s) : s[i] # sep THEN <<s>>
    ELSE LET i == CHOOSE i \in 1..Len(s) : s[i] = sep /\ \A j \in 1..(i - 1) : s[j] # sep
         IN  <<SubSeq(s, 1, i - 1)>> \o Split(SubSeq(s, i + 1, Len(s)), sep)

ButLast(s) == SubSeq(s, 1, Len(s) - 1)

\* chemkin_io.parser.reaction.get_rxn_name: the reaction key (reactant
\* names, product names, third body) of a reaction name
get_rxn_name(name) ==
    LET sides == Split(name, "=")
        rcts == Split(sides[1], "+")
        prds == Split(sides[2], "+")
        third == rcts[Len(rcts)] = <<"M">> /\ prds[Len(prds)] = <<"M">>
    IN  IF third THEN <<ButLast(rcts), ButLast(prds), "+M">>
        ELSE <<rcts, prds, "None">>

\* a params cell: the serialized string of a parameter set, or the
\* autoreact.params.RxnParams object of it
ParamSets == {"arrhenius"}
Params == [kind : {"str", "obj"}, val : ParamSets]

\* autoreact.params.RxnParams.from_string
from_string(p) == [kind |-> "obj", val |-> p.val]

RxnRows == [name : RxnNames, params : Params]
RxnTables == SeqsUpTo(RxnRows, MaxRxnRows)

\* pandas.api.types.infer_dtype of the params column
infer_dtype(col) ==
    IF Len(col) = 0 THEN "empty"
    ELSE IF \A i \in 1..Len(col) : col[i].kind = "str" THEN "string"
    ELSE "mixed"

\* the value of the DataFrame object after reactions_with_params_objects(df);
\* the same object is returned
reactions_with_params_objects(df) ==
    IF infer_dtype([i \in 1..Len(df) |-> df[i].params]) = "string"
    THEN [i \in 1..Len(df) |-> [df[i] EXCEPT !.params = from_string(df[i].params)]]
    ELSE df

\* dict(zip(rxns, params)) of an already normalized reaction table: a later
\* row with the same key replaces an earlier one
mechanism_dict_of(df) ==
    LET rxns == [i \in 1..Len(df) |-> get_rxn_name(df[i].name)]
        last(k) == CHOOSE i \in 1..Len(df) :
                       rxns[i] = k /\ \A j \in (i + 1)..Len(df) : rxns[j] # k
    IN  [k \in {rxns[i] : i \in 1..Len(df)} |-> df[last(k)].params]

\* identifiers of the species table and automol.chi.formula
Inchis == {"chi1", "chi2"}
formula(chi) == IF chi = "chi1" THEN "fml1" ELSE "fml2"

SpcRows == [name : SpcNames, inchi : Inchis]
SpcTables == SeqsUpTo(SpcRows, MaxSpcRows)

\* set(spc_df["name"])
NameSet(df) == {df[i].name : i \in 1..Len(df)}

\* {s for r, p, _ in rxn_dct for s in r + p}
SpcSet(dct) == UNION {Range(k[1] \o k[2]) : k \in DOMAIN dct}

\* spc_df[spc_df["name"].isin(spc_set)]
FilterIsin(df, spc_set) == Mask(df, [i \in 1..Len(df) |-> df[i].name \in spc_set])

\* a selection that is returned without the check of its names
species_for_mechanism_unchecked(df, dct) == Returned(FilterIsin(df, SpcSet(dct)))

species_for_mechanism(df, dct) ==
    LET spc_set == SpcSet(dct)
        sel_df == FilterIsin(df, spc_set)
    IN  IF NameSet(sel_df) = spc_set
        THEN Returned(sel_df)
        ELSE Raised("AssertionError", [missing |-> NameSet(sel_df) \ spc_set])

\* spc_df["fml"] = spc_df["inchi"].map(automol.chi.formula)
with_fml(df) ==
    [i \in 1..Len(df) |->
        [name |-> df[i].name, inchi |-> df[i].inchi, fml |-> formula(df[i].inchi)]]

\* duplicated rows dropped with the last row of each name kept
drop_duplicated_names_keep_last(df) ==
    Mask(df, [i \in 1..Len(df) |-> \A j \in (i + 1)..Len(df) : df[j].name # df[i].name])

\* spc_df[~spc_df["name"].duplicated(keep="first")]
drop_duplicated_names(df) ==
    Mask(df, [i \in 1..Len(df) |-> \A j \in 1..(i - 1) : df[j].name # df[i].name])

\* spc_df.set_index("name").to_dict("index") of a table with unique names
to_dict_index(df) ==
    [n \in NameSet(df) |->
        LET i == CHOOSE i \in 1..Len(df) : df[i].name = n
        IN  [inchi |-> df[i].inchi, fml |-> df[i].fml]]

\* the mech_spc_dct that mechanism_string hands to write_chemkin_file
mech_spc_dct(df) == to_dict_index(drop_duplicated_names(with_fml(df)))

\* ----------------------------------------------------------- state machine
\* the mechanism variables of a behaviour that calls no mechanism helper
NoMechanism ==
    /\ rxn_df = <<>>
    /\ spc_df = <<>>
    /\ rxn_dct = <<>>
    /\ mech_spc_df = <<>>
    /\ spc_dct = <<>>

MechUnchanged == UNCHANGED <<rxn_df, spc_df, rxn_dct, mech_spc_df, spc_dct>>

\* --- species naming: racemic_species_name(name, chi), and
\* reflect_species_name(name, chi) applied to a name and then to its result
InitNaming ==
    /\ fn \in {"racemic_species_name", "reflect_species_name"}
    /\ args \in [name : Names, chi : Chis]
    /\ pc = "call"
    /\ ret = None
    /\ NoMechanism

RacemicSpeciesName ==
    /\ fn = "racemic_species_name"
    /\ pc = "call"
    /\ ret' = racemic_species_name(args.name, args.chi)
    /\ pc' = IF ret'.status = "ok" THEN "done" ELSE "raised"
    /\ UNCHANGED <<fn, args>>
    /\ MechUnchanged

ReflectSpeciesName ==
    /\ fn = "reflect_species_name"
    /\ pc \in {"call", "once"}
    /\ ret' = reflect_species_name(IF pc = "call" THEN args.name ELSE ret.val, args.chi)
    /\ pc' = IF ret'.status = "ok"
             THEN (IF pc = "call" THEN "once" ELSE "twice")
             ELSE (IF pc = "call" THEN "raised" ELSE "raised_again")
    /\ UNCHANGED <<fn, args>>
    /\ MechUnchanged

NextNaming == RacemicSpeciesName \/ ReflectSpeciesName

SpecNaming == InitNaming /\ [][NextNaming]_vars

\* --- table lookup
InitLookup ==
    /\ fn \in {"lookup_rows", "lookup_row"}
    /\ args \in [df : LookupTables, col_val_dct : ColValDcts]
    /\ pc = "call"
    /\ ret = None
    /\ NoMechanism

LookupRows ==
    /\ fn = "lookup_rows"
    /\ pc = "call"
    /\ ret' = lookup_rows(args.df, args.col_val_dct)
    /\ pc' = IF ret'.status = "ok" THEN "done" ELSE "raised"
    /\ UNCHANGED <<fn, args>>
    /\ MechUnchanged

LookupRowOp ==
    /\ fn = "lookup_row"
    /\ pc = "call"
    /\ ret' = lookup_row(args.df, args.col_val_dct)
    /\ pc' = IF ret'.status = "ok" THEN "done" ELSE "raised"
    /\ UNCHANGED <<fn, args>>
    /\ MechUnchanged

NextLookup == LookupRows \/ LookupRowOp

SpecLookup == InitLookup /\ [][NextLookup]_vars

\* --- with_columns_from_other
InitMerge ==
    /\ fn = "with_columns_from_other"
    /\ \E dc \in DfColumnLists, oc \in OtherColumnLists :
         \E df \in Frames(dc, MaxDfRows), other_df \in Frames(oc, MaxOtherRows) :
           \E merge_on \in MergeOns(df, other_df) :
             args = [df |-> df, other_df |-> other_df, merge_on |-> merge_on]
    /\ pc = "call"
    /\ ret = None
    /\ NoMechanism

WithColumnsFromOther ==
    /\ fn = "with_columns_from_other"
    /\ pc = "call"
    /\ \E strict \in BOOLEAN :
         ret' = with_columns_from_other(args.df, args.other_df, args.merge_on, strict)
    /\ pc' = IF ret'.status = "ok" THEN "done" ELSE "raised"
    /\ UNCHANGED <<fn, args>>
    /\ MechUnchanged

NextMerge == WithColumnsFromOther

SpecMerge == InitMerge /\ [][NextMerge]_vars

\* --- mechanism assembly: a caller holding a reaction table and a species
\* table calls reactions_with_params_objects, or calls mechanism_dict, then
\* species_for_mechanism, then mechanism_string
InitMech ==
    /\ fn \in {"reactions_with_params_objects", "mechanism"}
    /\ args = <<>>
    /\ pc = IF fn = "mechanism" THEN "mechanism_dict" ELSE "call"
    /\ ret = None
    /\ rxn_df \in RxnTables
    /\ spc_df \in IF fn = "mechanism" THEN SpcTables ELSE {<<>>}
    /\ rxn_dct = <<>>
    /\ mech_spc_df = <<>>
    /\ spc_dct = <<>>

ReactionsWithParamsObjects ==
    /\ fn = "reactions_with_params_objects"
    /\ pc = "call"
    /\ rxn_df' = reactions_with_params_objects(rxn_df)
    /\ ret' = Returned(rxn_df')
    /\ pc' = "done"
    /\ UNCHANGED <<fn, args, spc_df, rxn_dct, mech_spc_df, spc_dct>>

MechanismDict ==
    /\ fn = "mechanism"
    /\ pc = "mechanism_dict"
    /\ rxn_df' = reactions_with_params_objects(rxn_df)
    /\ rxn_dct' = mechanism_dict_of(rxn_df')
    /\ ret' = Returned(rxn_dct')
    /\ pc' = "species_for_mechanism"
    /\ UNCHANGED <<fn, args, spc_df, mech_spc_df, spc_dct>>

SpeciesForMechanism ==
    /\ fn = "mechanism"
    /\ pc = "species_for_mechanism"
    /\ ret' = species_for_mechanism(spc_df, rxn_dct)
    /\ IF ret'.status = "ok"
       THEN mech_spc_df' = ret'.val /\ pc' = "mechanism_string"
       ELSE mech_spc_df' = mech_spc_df /\ pc' = "raised"
    /\ UNCHANGED <<fn, args, rxn_df, spc_df, rxn_dct, spc_dct>>

MechanismString ==
    /\ fn = "mechanism"
    /\ pc = "mechanism_string"
    /\ mech_spc_df' = with_fml(mech_spc_df)
    /\ spc_dct' = mech_spc_dct(mech_spc_df)
    /\ ret' = Returned("mech_str")
    /\ pc' = "done"
    /\ UNCHANGED <<fn, args, rxn_df, spc_df, rxn_dct>>

NextMech ==
    \/ ReactionsWithParamsObjects
    \/ MechanismDict
    \/ SpeciesForMechanism
    \/ MechanismString

SpecMech == InitMech /\ [][NextMech]_vars

\* --- every helper
Init == InitNaming \/ InitLookup \/ InitMerge \/ InitMech

Next == NextNaming \/ NextLookup \/ NextMerge \/ NextMech

Spec == Init /\ [][Next]_vars

\* ------------------------------------------------------------------ claims
\* the species names referenced as a reactant or a product in some key of a
\* mechanism dictionary
Referenced(dct) ==
    {s \in SpcNames : \E k \in DOMAIN dct :
        \/ \E i \in 1..Len(k[1]) : k[1][i] = s
        \/ \E i \in 1..Len(k[2]) : k[2][i] = s}

IsReferencedRow(r) == r.name \in Referenced(rxn_dct)

\* C1: species_for_mechanism either returns exactly the rows of the species
\* table whose name is referenced by the mechanism, in table order, their
\* names being exactly the referenced names, or, when a referenced name has
\* no row in the species table, raises AssertionError; it returns no partial
\* table.
C1_SpeciesForMechanismExact ==
    (fn = "mechanism" /\ pc \in {"mechanism_string", "raised"}) =>
        IF Referenced(rxn_dct) \subseteq {spc_df[i].name : i \in 1..Len(spc_df)}
        THEN /\ pc = "mechanism_string"
             /\ ret = Returned(SelectSeq(spc_df, IsReferencedRow))
             /\ {ret.val[i].name : i \in 1..Len(ret.val)} = Referenced(rxn_dct)
        ELSE /\ pc = "raised"
             /\ ret.status = "AssertionError"

\* a species table that covers only part of the referenced species, and has a
\* row that is not referenced, was refused
C1_Witness ==
    /\ fn = "mechanism"
    /\ pc = "raised"
    /\ \E i \in 1..Len(spc_df) : spc_df[i].name \in Referenced(rxn_dct)
    /\ \E i \in 1..Len(spc_df) : spc_df[i].name \notin Referenced(rxn_dct)
    /\ Cardinality(Referenced(rxn_dct)) = 2

\* the cell of row i of a frame under the first column labelled c
Cell(frame, i, c) == frame.rows[i][ColPos(frame.cols, c)]

\* C2: the table with_columns_from_other returns has exactly len(df) rows,
\* the i-th being the i-th row of df (its cells under df's columns are
\* df's), also when other_df has several rows with the keys of a row of df
\* and when it has none.
C2_RowCountPreserved ==
    (fn = "with_columns_from_other" /\ pc = "done") =>
        /\ Len(ret.val.rows) = Len(args.df.rows)
        /\ \A i \in 1..Len(ret.val.rows) :
             \A c \in Range(args.df.cols) \cap Range(ret.val.cols) :
                Cell(ret.val, i, c) = Cell(args.df, i, c)

\* other_df has two rows with the keys of the first row of df, and none with
\* the keys of the second
C2_Witness ==
    /\ fn = "with_columns_from_other"
    /\ pc = "done"
    /\ Len(args.df.rows) = 2
    /\ Len(args.other_df.rows) = 2
    /\ args.other_df.rows[1] # args.other_df.rows[2]
    /\ \A j \in 1..2 :
         KeyOf(args.other_df.cols, args.other_df.rows[j], args.merge_on) =
         KeyOf(args.df.cols, args.df.rows[1], args.merge_on)
    /\ KeyOf(args.df.cols, args.df.rows[2], args.merge_on) #
       KeyOf(args.df.cols, args.df.rows[1], args.merge_on)

\* C3: racemic_species_name returns the name unchanged for a non-chiral
\* identifier; for a chiral one and a name ending in "0" or "1" it returns
\* the name with that last character replaced by "r" and every other
\* character unchanged.
C3_RacemicName ==
    (fn = "racemic_species_name" /\ pc # "call") =>
        /\ ~is_enantiomer(args.chi) => ret = Returned(args.name)
        /\ (is_enantiomer(args.chi) /\ Len(args.name) > 0
                /\ args.name[Len(args.name)] \in {"0", "1"}) =>
             ret = Returned(SubSeq(args.name, 1, Len(args.name) - 1) \o <<"r">>)

\* a chiral name with a marker digit before its last character was racemized
C3_Witness ==
    /\ fn = "racemic_species_name"
    /\ pc = "done"
    /\ is_enantiomer(args.chi)
    /\ Len(args.name) = 3
    /\ args.name[2] \in {"0", "1"}
    /\ args.name[3] \in {"0", "1"}

\* the other marker digit
Flip(c) == IF c = "0" THEN "1" ELSE "0"

\* C4: reflect_species_name is an involution: when it succeeds on a name it
\* succeeds on its result, and gives the name back; one application returns
\* the name unchanged for a non-chiral identifier and swaps the trailing
\* "0" and "1" for a chiral one.
C4_ReflectInvolution ==
    fn = "reflect_species_name" =>
        /\ pc # "raised_again"
        /\ pc = "twice" => ret = Returned(args.name)
        /\ (pc = "once" /\ ~is_enantiomer(args.chi)) => ret = Returned(args.name)
        /\ (pc = "once" /\ is_enantiomer(args.chi)) =>
             ret = Returned(SubSeq(args.name, 1, Len(args.name) - 1)
                            \o <<Flip(args.name[Len(args.name)])>>)

\* a chiral name ending in "0" was reflected twice
C4_Witness ==
    /\ fn = "reflect_species_name"
    /\ pc = "twice"
    /\ is_enantiomer(args.chi)
    /\ Len(args.name) = 3
    /\ args.name[3] = "0"

\* the first row of the species table with the name n
FirstRowNamed(n) ==
    spc_df[CHOOSE i \in 1..Len(spc_df) :
               spc_df[i].name = n /\ \A j \in 1..(i - 1) : spc_df[j].name # n]

\* C5: after mechanism_dict, species_for_mechanism and mechanism_string, the
\* species mapping handed to the writer has exactly the referenced species
\* names as its keys, each once, with the attributes of the first row of
\* that name in the species table.
C5_WriterSpecies ==
    (fn = "mechanism" /\ pc = "done") =>
        /\ DOMAIN spc_dct = Referenced(rxn_dct)
        /\ \A n \in DOMAIN spc_dct :
             /\ spc_dct[n].inchi = FirstRowNamed(n).inchi
             /\ spc_dct[n].fml = formula(FirstRowNamed(n).inchi)

\* the species table had two rows of one referenced name, with different
\* identifiers, and a row that is not referenced
C5_Witness ==
    /\ fn = "mechanism"
    /\ pc = "done"
    /\ \E i, j \in 1..Len(spc_df) :
         /\ i < j
         /\ spc_df[i].name = spc_df[j].name
         /\ spc_df[i].inchi # spc_df[j].inchi
    /\ Cardinality(DOMAIN spc_dct) = 2

\* C6: after reactions_with_params_objects, and after mechanism_dict, every
\* row's params is the structured object, none a raw string.
C6_AllParamsObjects ==
    (\/ fn = "reactions_with_params_objects" /\ pc = "done"
     \/ fn = "mechanism" /\ pc # "mechanism_dict")
    => \A i \in 1..Len(rxn_df) : rxn_df[i].params.kind = "obj"

\* the columns of other_df whose labels are not labels of df, in order
NewColumns(df, other_df) ==
    SelectSeq(other_df.cols, LAMBDA c : c \notin Range(df.cols))

\* C7: the columns of the table with_columns_from_other returns are df's
\* columns, with df's labels and cells, followed by exactly the columns of
\* other_df whose labels are not labels of df.
C7_ColumnsKept ==
    (fn = "with_columns_from_other" /\ pc = "done") =>
        /\ ret.val.cols = args.df.cols \o NewColumns(args.df, args.other_df)
        /\ \A i \in 1..Len(ret.val.rows) :
             SubSeq(ret.val.rows[i], 1, Len(args.df.cols)) = args.df.rows[i]

\* C8: the AssertionError of species_for_mechanism carries the referenced
\* names that have no row in the species table, a non-empty set.
C8_MissingSpeciesReported ==
    (fn = "mechanism" /\ pc = "raised") =>
        /\ ret.val.missing =
             Referenced(rxn_dct) \ {spc_df[i].name : i \in 1..Len(spc_df)}
        /\ ret.val.missing # {}

\* a row in which every column named by the predicate map has the given value
Matches(r) ==
    \A j \in 1..Len(args.col_val_dct) : r[args.col_val_dct[j].col] = args.col_val_dct[j].val

\* C9: for a predicate map of zero or more pairs, lookup_rows returns the
\* rows, in table order, in which every named column has the given value,
\* and lookup_row the first of them, raising IndexError exactly when there
\* is none.
C9_Lookup ==
    /\ (fn = "lookup_rows" /\ pc # "call") =>
         ret = Returned(SelectSeq(args.df, Matches))
    /\ (fn = "lookup_row" /\ pc # "call") =>
         IF SelectSeq(args.df, Matches) = <<>>
         THEN ret.status = "IndexError"
         ELSE ret = Returned(SelectSeq(args.df, Matches)[1])

\* C10: no call of reactions_with_params_objects or mechanism_dict changes
\* the reaction table of the caller.
C10_CallerTableUnchanged == [][rxn_df' = rxn_df]_vars

====
